---------------------------- MODULE Spec2Model ----------------------------
(***************************************************************************)
(* A model of gholt/brimcrypt: the authenticated block envelope            *)
(* (encrypt0 / decrypt0 over newHMAC / validateHMAC) and the CryptFile     *)
(* engine built on it (open, create, read, write, writeHeader and the      *)
(* exported Size, Read, Write, WriteAsEmpty, Seek, Close).                 *)
(*                                                                         *)
(* Byte strings are sequences over 0..255, Go slices s[a:b] are Slice.     *)
(* The two library primitives the package calls, HMAC-SHA-256 and AES-256  *)
(* in CBC mode, are replaced by small keyed functions of the same shape    *)
(* (32-byte tag over the whole input; 16-byte chained blocks under an IV): *)
(* what the package does AROUND them (which bytes are tagged, where the IV *)
(* sits, what is checked before what) is translated line by line.          *)
(***************************************************************************)
EXTENDS Integers, Sequences, FiniteSets, TLC

(***************************************************************************)
(* Program constants.                                                      *)
(***************************************************************************)
hmacSize == 32
aesBlockSize == 16
header0ASize == 32
minBlockSize == 128
maxCandidate == 65536

Byte == 0..255

(***************************************************************************)
(* Go slice helpers: s[a:b] with 0-based, half-open bounds; make([]byte,n);*)
(* copy(dst[at:], src) returning the updated dst (the count is CopyN).     *)
(***************************************************************************)
Slice(s, a, b) == SubSeq(s, a + 1, b)

\* Tuple(f): the function f over 1..n as a sequence value.
Tuple(f) == f \o <<>>

Zeros(n) == Tuple([i \in 1..n |-> 0])

\* Bind(v, Op): Op applied to the value of v, with v computed once (a local
\* variable of the code: assigned once, read many times).
Bind(v, Op(_)) == CHOOSE r \in {Op(w) : w \in {v}} : TRUE

Min(a, b) == IF a < b THEN a ELSE b

Max(a, b) == IF a > b THEN a ELSE b

CopyN(dstLen, at, src) == Min(dstLen - at, Len(src))

CopyInto(dst, at, src) ==
    IF CopyN(Len(dst), at, src) <= 0 THEN dst
    ELSE SubSeq(dst, 1, at) \o SubSeq(src, 1, CopyN(Len(dst), at, src))
            \o SubSeq(dst, at + CopyN(Len(dst), at, src) + 1, Len(dst))

(***************************************************************************)
(* binary.BigEndian.PutUint32 / Uint32 / PutUint64 / Uint64.               *)
(***************************************************************************)
RECURSIVE Pow256(_)
Pow256(k) == IF k = 0 THEN 1 ELSE 256 * Pow256(k - 1)

\* The model's sizes stay below 2^24, so the high bytes of a 64-bit field are 0
\* and the value is carried by the low three bytes.
PutUint(width, v) ==
    Tuple([i \in 1..width |->
              IF width - i < 3 THEN (v \div Pow256(width - i)) % 256 ELSE 0])

RECURSIVE Pow2(_)
Pow2(k) == IF k = 0 THEN 1 ELSE 2 * Pow2(k - 1)

RECURSIVE Uint(_)
Uint(bytes) ==
    IF bytes = <<>> THEN 0
    ELSE bytes[Len(bytes)] + 256 * Uint(SubSeq(bytes, 1, Len(bytes) - 1))

(***************************************************************************)
(* crypto/hmac with sha256: a 32-byte tag of (key, block).  Tag byte j     *)
(* mixes key byte j, the length and every block byte at a position         *)
(* congruent to j, so the tag changes whenever one byte of the block or of *)
(* the key changes, which is the property of HMAC the package relies on.   *)
(***************************************************************************)
KeyByte(key, j) == key[((j - 1) % Len(key)) + 1]

RECURSIVE StrideSum(_, _)
StrideSum(block, i) ==
    IF i > Len(block) THEN 0 ELSE block[i] + StrideSum(block, i + hmacSize)

newHMAC(block, key) ==
    Bind(<<block, key>>, LAMBDA a :
         Tuple([j \in 1..hmacSize |->
                   (KeyByte(a[2], j) + j + Len(a[1]) + StrideSum(a[1], j)) % 256]))

validateHMAC(block, givenHMAC, key) == givenHMAC = newHMAC(block, key)

(***************************************************************************)
(* crypto/aes + cipher.NewCBCEncrypter / NewCBCDecrypter: 16-byte blocks,  *)
(* each ciphertext block the keyed image of (plain block + previous        *)
(* ciphertext block), the first one chained to the IV.                     *)
(***************************************************************************)
aesKeyOK(key) == Len(key) \in {16, 24, 32}

\* The 16 bytes the key contributes to every cipher block.
CipherBytes(key) ==
    Tuple([i \in 1..aesBlockSize |->
              (KeyByte(key, i) + 3 * KeyByte(key, i + aesBlockSize)) % 256])

RECURSIVE CBCChain(_, _, _)
CBCChain(kb, prev, plain) ==
    IF plain = <<>> THEN <<>>
    ELSE Bind(Tuple([i \in 1..aesBlockSize |-> (plain[i] + prev[i] + kb[i]) % 256]),
              LAMBDA c : c \o CBCChain(kb, c, SubSeq(plain, aesBlockSize + 1, Len(plain))))

CBCEncrypt(key, iv, plain) ==
    Bind(<<CipherBytes(key), iv, plain>>, LAMBDA a : CBCChain(a[1], a[2], a[3]))

CBCDecrypt(key, iv, ct) ==
    Bind(<<CipherBytes(key), iv \o ct, ct>>, LAMBDA a :
         Tuple([i \in 1..Len(a[3]) |->
                   (a[3][i] + 512 - a[2][i] - a[1][((i - 1) % aesBlockSize) + 1]) % 256]))

(***************************************************************************)
(* crypto/rand.Read: n bytes drawn from a seed the environment picks.      *)
(***************************************************************************)
RandBytes(seed, n) == Tuple([i \in 1..n |-> (seed + 5 * i) % 256])

(***************************************************************************)
(* brimcrypt.go: decrypt0 and encrypt0.  Results are records               *)
(* [err, out]; out is <<>> where Go returns nil.                           *)
(***************************************************************************)
decrypt0NoCheck(block, key) ==
    IF Len(block) % aesBlockSize # 0 THEN [err |-> "misaligned", out |-> <<>>]
    ELSE IF ~aesKeyOK(key) THEN [err |-> "keysize", out |-> <<>>]
    ELSE [err |-> "nil",
          out |-> CBCDecrypt(key, Slice(block, hmacSize, hmacSize + aesBlockSize),
                             Slice(block, hmacSize + aesBlockSize, Len(block)))]

decrypt0(block, key) ==
    IF Len(block) % aesBlockSize # 0 THEN [err |-> "misaligned", out |-> <<>>]
    ELSE IF ~validateHMAC(Slice(block, hmacSize, Len(block)),
                          Slice(block, 0, hmacSize), key)
         THEN [err |-> "KeyError", out |-> <<>>]
    ELSE IF ~aesKeyOK(key) THEN [err |-> "keysize", out |-> <<>>]
    ELSE [err |-> "nil",
          out |-> CBCDecrypt(key, Slice(block, hmacSize, hmacSize + aesBlockSize),
                             Slice(block, hmacSize + aesBlockSize, Len(block)))]

\* randOK: whether rand.Read succeeds; seed: the bytes it delivers.
encrypt0IvAfterCipher(plainBlock, key, randOK, seed) ==
    IF Len(plainBlock) % aesBlockSize # 0 THEN [err |-> "misaligned", out |-> <<>>]
    ELSE IF ~randOK THEN [err |-> "randerr", out |-> <<>>]
    ELSE IF ~aesKeyOK(key) THEN [err |-> "keysize", out |-> <<>>]
    ELSE Bind(RandBytes(seed, aesBlockSize)
                 \o CBCEncrypt(key, Zeros(aesBlockSize), plainBlock), LAMBDA body :
              [err |-> "nil", out |-> newHMAC(body, key) \o body])

\* encrypt0 without the length check of brimcrypt.go:36.
encrypt0Unaligned(plainBlock, key, randOK, seed) ==
    IF ~randOK THEN [err |-> "randerr", out |-> <<>>]
    ELSE IF ~aesKeyOK(key) THEN [err |-> "keysize", out |-> <<>>]
    ELSE Bind(RandBytes(seed, aesBlockSize), LAMBDA iv :
         Bind(iv \o CBCEncrypt(key, iv, plainBlock), LAMBDA body :
              [err |-> "nil", out |-> newHMAC(body, key) \o body]))

encrypt0(plainBlock, key, randOK, seed) ==
    IF Len(plainBlock) % aesBlockSize # 0 THEN [err |-> "misaligned", out |-> <<>>]
    ELSE IF ~randOK THEN [err |-> "randerr", out |-> <<>>]
    ELSE IF ~aesKeyOK(key) THEN [err |-> "keysize", out |-> <<>>]
    ELSE Bind(RandBytes(seed, aesBlockSize), LAMBDA iv :
         Bind(iv \o CBCEncrypt(key, iv, plainBlock), LAMBDA body :
              [err |-> "nil", out |-> newHMAC(body, key) \o body]))

(***************************************************************************)
(* The world one call runs in: the handle cf (the fields of CryptFile; Path *)
(* is the one path of the model), the file at that path, and the            *)
(* environment of the call: calls counts the fallible environment calls     *)
(* made so far (os.OpenFile, ReadAt, WriteAt, rand.Read), failAt is the one *)
(* that fails with a non-EOF error (0: none), seed feeds rand.Read, and     *)
(* loaded is the number of the block last put in cf.plainBlock.             *)
(* cf.file is TRUE when the handle holds an open *os.File, FALSE for nil;   *)
(* cf.plainBlock is <<>> for nil.                                           *)
(***************************************************************************)
Magic == <<67, 82, 89, 80, 84, 70, 73, 76, 69, 48, 32>>

\* estimatedBlockSize is blockSizeForSize(estimatedSize), computed by the caller.
NewCryptFile(key, estimatedBlockSize) ==
    [key |-> key, fallbackBlockSize |-> estimatedBlockSize, unknownState |-> FALSE,
     file |-> FALSE, blockSize |-> 0, size |-> 0, headerDirty |-> FALSE,
     plainBlockSize |-> 0, plainBlock |-> <<>>, plainBlockIndex |-> 0,
     plainBlockDirty |-> FALSE, index |-> 0]

World(h, d, failAt, seed) ==
    [cf |-> h, disk |-> d, calls |-> 0, failAt |-> failAt, seed |-> seed,
     loaded |-> -1]

Failing(s) == s.calls + 1 = s.failAt

Called(s) == [s EXCEPT !.calls = @ + 1]

RandAt(s) == (s.seed + 17 * s.calls) % 256

\* A poisoning that sets the flag and keeps the file.
PoisonKeepFile(s) == [s EXCEPT !.cf.unknownState = TRUE]

\* cf.unknownState = true; cf.file.Close(); cf.file = nil
Poison(s) == [s EXCEPT !.cf.unknownState = TRUE, !.cf.file = FALSE]

(***************************************************************************)
(* os.File ReadAt and WriteAt on the file of the path.                     *)
(***************************************************************************)
ReadAt(s, n, off) ==
    LET data  == s.disk.data
        avail == Max(0, Min(n, Len(data) - off))
    IN  IF Failing(s) \/ ~s.cf.file
        THEN [s |-> Called(s), n |-> 0, err |-> "ioerr", buf |-> <<>>]
        ELSE [s |-> Called(s), n |-> avail,
              err |-> IF avail < n THEN "EOF" ELSE "nil",
              buf |-> Slice(data, off, off + avail)]

WriteAt(s, b, off) ==
    LET data == s.disk.data
        grown == IF Len(data) >= off + Len(b) THEN data
                 ELSE data \o Zeros(off + Len(b) - Len(data))
    IN  IF Failing(s) \/ ~s.cf.file
        THEN [s |-> Called(s), n |-> 0, err |-> "ioerr"]
        ELSE [s |-> [Called(s) EXCEPT !.disk.data = CopyInto(grown, off, b)],
              n |-> Len(b), err |-> "nil"]

(***************************************************************************)
(* The unexported methods.  Each returns [s, err]: the world after the     *)
(* call and the error ("nil" for none).                                    *)
(***************************************************************************)
Ret(s, err) == [s |-> s, err |-> err]

\* The test the code applies to every ReadAt / WriteAt result.
IOFailed(err, n, want) == err # "nil" /\ (err # "EOF" \/ (err = "EOF" /\ n # want))

\* A failure path of open that returns without file.Close().
ShutNot(x) == x

\* every error path of open closes the local variable file
Shut(x) == [x EXCEPT !.cf.file = FALSE]

open(s) ==
    IF s.cf.unknownState THEN Ret(s, "unusable")
    ELSE IF s.cf.file THEN Ret(s, "nil")
    ELSE IF Failing(s) THEN Ret(Called(s), "ioerr")
    ELSE IF ~s.disk.exists THEN Ret(Called(s), "notexist")
    ELSE
    \* the local variable file is open from here on
    Bind(ReadAt([Called(s) EXCEPT !.cf.file = TRUE], header0ASize, 0), LAMBDA ha :
    IF IOFailed(ha.err, ha.n, header0ASize) THEN Ret(Shut(ha.s), ha.err)
    ELSE IF Slice(ha.buf, 0, 11) # Magic THEN Ret(Shut(ha.s), "badmagic")
    ELSE
    Bind(Uint(Slice(ha.buf, 16, 20)), LAMBDA blockSize :
    IF blockSize < minBlockSize THEN Ret(Shut(ha.s), "badblocksize")
    ELSE IF blockSize % aesBlockSize # 0 THEN Ret(Shut(ha.s), "badblocksize")
    ELSE
    Bind(ReadAt(ha.s, blockSize - header0ASize, header0ASize), LAMBDA hb :
    IF IOFailed(hb.err, hb.n, blockSize - header0ASize) THEN Ret(Shut(hb.s), hb.err)
    ELSE
    Bind(decrypt0(hb.buf, s.cf.key), LAMBDA dec :
    IF dec.err # "nil" THEN Ret(Shut(hb.s), dec.err)
    ELSE Ret([hb.s EXCEPT !.cf.file = TRUE,
                          !.cf.blockSize = blockSize,
                          !.cf.plainBlockSize = blockSize - hmacSize - aesBlockSize,
                          !.cf.size = Uint(Slice(dec.out, 0, 8)),
                          !.cf.headerDirty = FALSE],
             "nil")))))

\* A create that leaves the IV out of the plain block size.
createNoIv(s) ==
    Bind([s EXCEPT !.cf.unknownState = FALSE,
                   !.cf.blockSize = IF s.cf.fallbackBlockSize = 0 THEN minBlockSize
                                    ELSE s.cf.fallbackBlockSize,
                   !.cf.size = 0,
                   !.cf.headerDirty = TRUE,
                   !.cf.plainBlockSize =
                       (IF s.cf.fallbackBlockSize = 0 THEN minBlockSize
                        ELSE s.cf.fallbackBlockSize) - hmacSize,
                   !.cf.plainBlock = <<>>,
                   !.cf.plainBlockIndex = 0,
                   !.cf.plainBlockDirty = FALSE,
                   !.cf.index = 0], LAMBDA s1 :
    IF Failing(s1) \/ s1.disk.exists
    THEN Ret([Called(s1) EXCEPT !.cf.file = FALSE, !.cf.unknownState = TRUE], "ioerr")
    ELSE Ret([Called(s1) EXCEPT !.cf.file = TRUE,
                                !.disk = [exists |-> TRUE, data |-> <<>>]],
             "nil"))

\* The directory of the path exists in the model, so MkdirAll is not reached.
create(s) ==
    Bind([s EXCEPT !.cf.unknownState = FALSE,
                   !.cf.blockSize = IF s.cf.fallbackBlockSize = 0 THEN minBlockSize
                                    ELSE s.cf.fallbackBlockSize,
                   !.cf.size = 0,
                   !.cf.headerDirty = TRUE,
                   !.cf.plainBlockSize =
                       (IF s.cf.fallbackBlockSize = 0 THEN minBlockSize
                        ELSE s.cf.fallbackBlockSize) - hmacSize - aesBlockSize,
                   !.cf.plainBlock = <<>>,
                   !.cf.plainBlockIndex = 0,
                   !.cf.plainBlockDirty = FALSE,
                   !.cf.index = 0], LAMBDA s1 :
    IF Failing(s1) \/ s1.disk.exists
    THEN Ret([Called(s1) EXCEPT !.cf.file = FALSE, !.cf.unknownState = TRUE], "ioerr")
    ELSE Ret([Called(s1) EXCEPT !.cf.file = TRUE,
                                !.disk = [exists |-> TRUE, data |-> <<>>]],
             "nil"))

read(s) ==
    IF s.cf.unknownState \/ s.cf.plainBlockSize = 0 THEN Ret(s, "unusable")
    ELSE
    \* blockNumber := cf.index / cf.plainBlockSize
    Bind(ReadAt(s, s.cf.blockSize,
                s.cf.blockSize + (s.cf.index \div s.cf.plainBlockSize) * s.cf.blockSize),
         LAMBDA r :
    IF IOFailed(r.err, r.n, s.cf.blockSize)
    THEN Ret(IF r.err # "EOF" THEN Poison(r.s) ELSE r.s, r.err)
    ELSE
    Bind(decrypt0(r.buf, s.cf.key), LAMBDA dec :
    IF dec.err # "nil" THEN Ret(r.s, dec.err)
    ELSE Ret([r.s EXCEPT !.cf.plainBlock = dec.out, !.cf.plainBlockDirty = FALSE,
                         !.loaded = s.cf.index \div s.cf.plainBlockSize],
             "nil")))

\* A write that places the data blocks behind a Header-B of blockSize bytes.
writeAfterWholeHeaderB(s) ==
    IF s.cf.unknownState THEN Ret(s, "unusable")
    ELSE
    \* encrypt0 draws its IV from rand.Read: one environment call
    Bind(encrypt0(s.cf.plainBlock, s.cf.key, ~Failing(s), RandAt(s)), LAMBDA enc :
    IF enc.err # "nil" THEN Ret(Poison(Called(s)), enc.err)
    ELSE
    \* blockNumber := cf.index / cf.plainBlockSize
    Bind(WriteAt(Called(s), enc.out,
                 header0ASize + s.cf.blockSize
                    + (s.cf.index \div s.cf.plainBlockSize) * s.cf.blockSize),
         LAMBDA w :
    IF IOFailed(w.err, w.n, Len(enc.out))
    THEN Ret(IF w.err # "EOF" THEN Poison(w.s) ELSE w.s, w.err)
    ELSE Ret([w.s EXCEPT !.cf.plainBlockDirty = FALSE], "nil")))

write(s) ==
    IF s.cf.unknownState THEN Ret(s, "unusable")
    ELSE
    \* encrypt0 draws its IV from rand.Read: one environment call
    Bind(encrypt0(s.cf.plainBlock, s.cf.key, ~Failing(s), RandAt(s)), LAMBDA enc :
    IF enc.err # "nil" THEN Ret(Poison(Called(s)), enc.err)
    ELSE
    \* blockNumber := cf.index / cf.plainBlockSize
    Bind(WriteAt(Called(s), enc.out,
                 s.cf.blockSize + (s.cf.index \div s.cf.plainBlockSize) * s.cf.blockSize),
         LAMBDA w :
    IF IOFailed(w.err, w.n, Len(enc.out))
    THEN Ret(IF w.err # "EOF" THEN Poison(w.s) ELSE w.s, w.err)
    ELSE Ret([w.s EXCEPT !.cf.plainBlockDirty = FALSE], "nil")))

\* A writeHeader that stores the block size the handle was constructed with.
writeHeaderFallback(s) ==
    IF s.cf.unknownState THEN Ret(s, "unusable")
    ELSE IF ~s.cf.file THEN Ret(s, "nil")
    ELSE
    Bind(WriteAt(s, CopyInto(CopyInto(Zeros(header0ASize), 0, Magic),
                             16, PutUint(4, s.cf.fallbackBlockSize)), 0), LAMBDA wa :
    IF IOFailed(wa.err, wa.n, header0ASize)
    THEN Ret(IF wa.err # "EOF" THEN Poison(wa.s) ELSE wa.s, wa.err)
    \* rand.Read(dec[8:])
    ELSE IF Failing(wa.s) THEN Ret(Poison(Called(wa.s)), "randerr")
    ELSE
    Bind(Called(wa.s), LAMBDA s2 :
    Bind(encrypt0(PutUint(8, s.cf.size)
                     \o RandBytes(RandAt(wa.s), s.cf.plainBlockSize - header0ASize - 8),
                  s.cf.key, ~Failing(s2), RandAt(s2)), LAMBDA enc :
    IF enc.err # "nil" THEN Ret(Poison(Called(s2)), enc.err)
    ELSE
    Bind(WriteAt(Called(s2), enc.out, header0ASize), LAMBDA wb :
    IF IOFailed(wb.err, wb.n, Len(enc.out))
    THEN Ret(IF wb.err # "EOF" THEN Poison(wb.s) ELSE wb.s, wb.err)
    ELSE Ret(wb.s, "nil")))))

\* A writeHeader that stores the position in place of the size.
writeHeaderIndex(s) ==
    IF s.cf.unknownState THEN Ret(s, "unusable")
    ELSE IF ~s.cf.file THEN Ret(s, "nil")
    ELSE
    Bind(WriteAt(s, CopyInto(CopyInto(Zeros(header0ASize), 0, Magic),
                             16, PutUint(4, s.cf.blockSize)), 0), LAMBDA wa :
    IF IOFailed(wa.err, wa.n, header0ASize)
    THEN Ret(IF wa.err # "EOF" THEN Poison(wa.s) ELSE wa.s, wa.err)
    \* rand.Read(dec[8:])
    ELSE IF Failing(wa.s) THEN Ret(Poison(Called(wa.s)), "randerr")
    ELSE
    Bind(Called(wa.s), LAMBDA s2 :
    Bind(encrypt0(PutUint(8, s.cf.index)
                     \o RandBytes(RandAt(wa.s), s.cf.plainBlockSize - header0ASize - 8),
                  s.cf.key, ~Failing(s2), RandAt(s2)), LAMBDA enc :
    IF enc.err # "nil" THEN Ret(Poison(Called(s2)), enc.err)
    ELSE
    Bind(WriteAt(Called(s2), enc.out, header0ASize), LAMBDA wb :
    IF IOFailed(wb.err, wb.n, Len(enc.out))
    THEN Ret(IF wb.err # "EOF" THEN Poison(wb.s) ELSE wb.s, wb.err)
    ELSE Ret(wb.s, "nil")))))

writeHeader(s) ==
    IF s.cf.unknownState THEN Ret(s, "unusable")
    ELSE IF ~s.cf.file THEN Ret(s, "nil")
    ELSE
    Bind(WriteAt(s, CopyInto(CopyInto(Zeros(header0ASize), 0, Magic),
                             16, PutUint(4, s.cf.blockSize)), 0), LAMBDA wa :
    IF IOFailed(wa.err, wa.n, header0ASize)
    THEN Ret(IF wa.err # "EOF" THEN Poison(wa.s) ELSE wa.s, wa.err)
    \* rand.Read(dec[8:])
    ELSE IF Failing(wa.s) THEN Ret(Poison(Called(wa.s)), "randerr")
    ELSE
    Bind(Called(wa.s), LAMBDA s2 :
    Bind(encrypt0(PutUint(8, s.cf.size)
                     \o RandBytes(RandAt(wa.s), s.cf.plainBlockSize - header0ASize - 8),
                  s.cf.key, ~Failing(s2), RandAt(s2)), LAMBDA enc :
    IF enc.err # "nil" THEN Ret(Poison(Called(s2)), enc.err)
    ELSE
    Bind(WriteAt(Called(s2), enc.out, header0ASize), LAMBDA wb :
    IF IOFailed(wb.err, wb.n, Len(enc.out))
    THEN Ret(IF wb.err # "EOF" THEN Poison(wb.s) ELSE wb.s, wb.err)
    ELSE Ret(wb.s, "nil")))))

(***************************************************************************)
(* The exported methods.  Each returns [s, n, err, data]: the world after  *)
(* the call, the count (or position, or size) returned, the error, and     *)
(* for Read the bytes copied into the caller's buffer.                     *)
(***************************************************************************)
Out(s, n, err, data) == [s |-> s, n |-> n, err |-> err, data |-> data]

\* if cf.file == nil { if err := cf.open(); err != nil { return 0, err } }
EnsureOpen(s) == IF ~s.cf.file THEN open(s) ELSE Ret(s, "nil")

\* A Size that answers from the field without any check.
SizeUnchecked(s) == Out(s, s.cf.size, "nil", <<>>)

\* A Size that creates the file it does not find, as Write does.
SizeCreating(s) ==
    Bind(open(s), LAMBDA o :
    Bind(IF o.err = "notexist" THEN create(o.s) ELSE o, LAMBDA c :
    Out(c.s, IF c.err = "nil" THEN c.s.cf.size ELSE 0, c.err, <<>>)))

Size(s) ==
    IF s.cf.unknownState THEN Out(s, 0, "unusable", <<>>)
    ELSE
    Bind(EnsureOpen(s), LAMBDA o :
    IF o.err # "nil" THEN Out(o.s, 0, o.err, <<>>)
    ELSE Out(o.s, o.s.cf.size, "nil", <<>>))

\* The end of Read, on the world s2 after the block handling, n bytes copied:
\* cf.index += n, clamped to cf.size with n reduced by the excess.
ReadCount(s2, n, data) ==
    IF s2.cf.index + n > s2.cf.size
    THEN Out([s2 EXCEPT !.cf.index = s2.cf.size], n - (s2.cf.index + n - s2.cf.size),
             IF n - (s2.cf.index + n - s2.cf.size) <= 0 THEN "EOF" ELSE "nil", data)
    ELSE Out([s2 EXCEPT !.cf.index = s2.cf.index + n], n,
             IF n <= 0 THEN "EOF" ELSE "nil", data)

\* bLen is len(b).
Read(s, bLen) ==
    IF s.cf.unknownState THEN Out(s, 0, "unusable", <<>>)
    ELSE
    Bind(EnsureOpen(s), LAMBDA o :
    IF o.err # "nil" THEN Out(o.s, 0, o.err, <<>>)
    ELSE
    Bind(IF o.s.cf.plainBlock = <<>> THEN read(o.s) ELSE Ret(o.s, "nil"), LAMBDA r :
    IF r.err # "nil" THEN Out(r.s, 0, r.err, <<>>)
    ELSE
    \* n := copy(b, cf.plainBlock[cf.plainBlockIndex:])
    Bind(Min(bLen, Len(r.s.cf.plainBlock) - r.s.cf.plainBlockIndex), LAMBDA n :
    Bind(Slice(r.s.cf.plainBlock, r.s.cf.plainBlockIndex, r.s.cf.plainBlockIndex + n),
         LAMBDA data :
    Bind([r.s EXCEPT !.cf.plainBlockIndex = @ + n], LAMBDA s1 :
    IF s1.cf.plainBlockIndex >= s1.cf.plainBlockSize
    THEN Bind(IF s1.cf.plainBlockDirty THEN write(s1) ELSE Ret(s1, "nil"), LAMBDA w :
         IF w.err # "nil" THEN Out(w.s, n, w.err, data)
         ELSE Bind([w.s EXCEPT !.cf.plainBlock = <<>>, !.cf.plainBlockIndex = 0],
                   LAMBDA s2 : ReadCount(s2, n, data)))
    ELSE ReadCount(s1, n, data))))))

\* The body of the loop "for len(b) > 0" of Write, n the count so far.
RECURSIVE WriteLoop(_, _, _)
WriteLoop(s, b, n) ==
    IF Len(b) = 0 THEN Out(s, n, "nil", <<>>)
    ELSE
    Bind(IF s.cf.plainBlock = <<>> THEN read(s) ELSE Ret(s, "nil"), LAMBDA r :
    \* err == io.EOF: a fresh block of random bytes (one rand.Read)
    IF r.err = "EOF" /\ Failing(r.s) THEN Out(Poison(Called(r.s)), 0, "randerr", <<>>)
    ELSE IF r.err \notin {"nil", "EOF"} THEN Out(r.s, 0, r.err, <<>>)
    ELSE
    Bind(IF r.err = "nil" THEN r.s
         ELSE [Called(r.s) EXCEPT
                  !.cf.plainBlock = RandBytes(RandAt(r.s), r.s.cf.plainBlockSize),
                  !.cf.plainBlockIndex = 0,
                  !.cf.plainBlockDirty = FALSE,
                  !.loaded = r.s.cf.index \div r.s.cf.plainBlockSize], LAMBDA s1 :
    \* n2 := copy(cf.plainBlock[cf.plainBlockIndex:], b)
    Bind(CopyN(Len(s1.cf.plainBlock), s1.cf.plainBlockIndex, b), LAMBDA n2 :
    Bind(Slice(b, n2, Len(b)), LAMBDA rest :
    IF n2 <= 0 THEN WriteLoop(s1, rest, n + n2)
    ELSE
    Bind([s1 EXCEPT !.cf.plainBlock = CopyInto(@, s1.cf.plainBlockIndex, b),
                    !.cf.plainBlockDirty = TRUE,
                    !.cf.plainBlockIndex = @ + n2], LAMBDA s2 :
    Bind(IF s2.cf.plainBlockIndex >= s2.cf.plainBlockSize
         THEN Bind(write(s2), LAMBDA w :
              IF w.err # "nil" THEN w
              ELSE Ret([w.s EXCEPT !.cf.plainBlock = <<>>,
                                   !.cf.plainBlockIndex = 0,
                                   !.cf.plainBlockDirty = FALSE], "nil"))
         ELSE Ret(s2, "nil"), LAMBDA s3 :
    IF s3.err # "nil" THEN Out(s3.s, 0, s3.err, <<>>)
    ELSE
    Bind([s3.s EXCEPT !.cf.index = @ + n2,
                      !.cf.size = s3.s.cf.index + n2,
                      !.cf.headerDirty = TRUE], LAMBDA s4 :
    WriteLoop(s4, rest, n + n2))))))))

Write(s, b) ==
    IF s.cf.unknownState THEN Out(s, 0, "unusable", <<>>)
    ELSE
    Bind(EnsureOpen(s), LAMBDA o :
    Bind(IF o.err = "notexist" THEN create(o.s) ELSE o, LAMBDA c :
    IF c.err # "nil" THEN Out(c.s, 0, c.err, <<>>)
    ELSE WriteLoop(c.s, b, 0)))

\* A WriteAsEmpty that writes its one byte and leaves the size at that.
WriteAsEmptyKeepSize(s) ==
    Bind(Write(s, <<0>>), LAMBDA w : Out(w.s, 0, w.err, <<>>))

WriteAsEmpty(s) ==
    Bind(Write(s, <<0>>), LAMBDA w :
    IF w.err # "nil" THEN Out(w.s, 0, w.err, <<>>)
    ELSE Out([w.s EXCEPT !.cf.index = 0, !.cf.size = 0, !.cf.headerDirty = TRUE],
             0, "nil", <<>>))

\* A switch of Seek that takes every offset as absolute.
newIndexAbsolute(c, offset, whence) == offset

\* The switch of Seek: the position asked for, from the handle's fields c.
newIndex(c, offset, whence) ==
    CASE whence = 0 -> offset
      [] whence = 1 -> c.index + offset
      [] whence = 2 -> c.size + offset
      [] OTHER -> 0

\* A Seek that returns 0 with its errors, as it does for an unusable handle.
SeekErrZero(s, offset, whence) ==
    IF s.cf.unknownState THEN Out(s, 0, "unusable", <<>>)
    ELSE
    Bind(EnsureOpen(s), LAMBDA o :
    IF o.err # "nil" THEN Out(o.s, 0, o.err, <<>>)
    ELSE IF whence \notin {0, 1, 2} THEN Out(o.s, 0, "whence", <<>>)
    ELSE
    Bind(newIndex(o.s.cf, offset, whence), LAMBDA to :
    IF to < 0 THEN Out(o.s, 0, "negative", <<>>)
    ELSE IF to \div o.s.cf.plainBlockSize = o.s.cf.index \div o.s.cf.plainBlockSize
    THEN Out([o.s EXCEPT !.cf.index = to,
                         !.cf.plainBlockIndex = to % o.s.cf.plainBlockSize],
             to, "nil", <<>>)
    ELSE
    \* another block: the cached one is flushed if dirty, and dropped
    Bind(IF o.s.cf.plainBlockDirty THEN write(o.s) ELSE Ret(o.s, "nil"), LAMBDA w :
    IF w.err # "nil" THEN Out(w.s, w.s.cf.index, w.err, <<>>)
    ELSE Out([w.s EXCEPT !.cf.plainBlock = <<>>,
                         !.cf.index = to,
                         !.cf.plainBlockIndex = to % o.s.cf.plainBlockSize],
             to, "nil", <<>>))))

Seek(s, offset, whence) ==
    IF s.cf.unknownState THEN Out(s, 0, "unusable", <<>>)
    ELSE
    Bind(EnsureOpen(s), LAMBDA o :
    IF o.err # "nil" THEN Out(o.s, 0, o.err, <<>>)
    ELSE IF whence \notin {0, 1, 2} THEN Out(o.s, o.s.cf.index, "whence", <<>>)
    ELSE
    Bind(newIndex(o.s.cf, offset, whence), LAMBDA to :
    IF to < 0 THEN Out(o.s, o.s.cf.index, "negative", <<>>)
    ELSE IF to \div o.s.cf.plainBlockSize = o.s.cf.index \div o.s.cf.plainBlockSize
    THEN Out([o.s EXCEPT !.cf.index = to,
                         !.cf.plainBlockIndex = to % o.s.cf.plainBlockSize],
             to, "nil", <<>>)
    ELSE
    \* another block: the cached one is flushed if dirty, and dropped
    Bind(IF o.s.cf.plainBlockDirty THEN write(o.s) ELSE Ret(o.s, "nil"), LAMBDA w :
    IF w.err # "nil" THEN Out(w.s, w.s.cf.index, w.err, <<>>)
    ELSE Out([w.s EXCEPT !.cf.plainBlock = <<>>,
                         !.cf.index = to,
                         !.cf.plainBlockIndex = to % o.s.cf.plainBlockSize],
             to, "nil", <<>>))))

\* A tail of Close that forgets to clear unknownState.
resetFieldsKeepUnknown(c) ==
    [c EXCEPT !.file = FALSE, !.blockSize = 0, !.size = 0, !.headerDirty = FALSE,
              !.plainBlockSize = 0, !.plainBlock = <<>>, !.plainBlockIndex = 0,
              !.plainBlockDirty = FALSE, !.index = 0]

\* The tail of Close: the file closed and set to nil, every field but Path,
\* key and fallbackBlockSize back to its zero value.
resetFields(c) ==
    [c EXCEPT !.file = FALSE, !.unknownState = FALSE, !.blockSize = 0, !.size = 0,
              !.headerDirty = FALSE, !.plainBlockSize = 0, !.plainBlock = <<>>,
              !.plainBlockIndex = 0, !.plainBlockDirty = FALSE, !.index = 0]

\* A Close that releases the file and resets the handle without flushing.
CloseNoFlush(s) == Out([s EXCEPT !.cf = resetFields(@)], 0, "nil", <<>>)

\* A Close that opens the file first, as the other exported methods do.
CloseOpening(s) ==
    Bind(IF s.cf.unknownState THEN Ret(s, "nil") ELSE EnsureOpen(s), LAMBDA o :
    IF o.err # "nil" THEN Out(o.s, 0, o.err, <<>>)
    ELSE
    Bind(IF ~s.cf.unknownState /\ o.s.cf.plainBlockDirty THEN write(o.s)
         ELSE Ret(o.s, "nil"), LAMBDA w :
    IF w.err # "nil" THEN Out(w.s, 0, w.err, <<>>)
    ELSE
    Bind(IF ~s.cf.unknownState /\ w.s.cf.headerDirty THEN writeHeader(w.s)
         ELSE Ret(w.s, "nil"), LAMBDA h :
    IF h.err # "nil" THEN Out(h.s, 0, h.err, <<>>)
    ELSE Out([h.s EXCEPT !.cf = resetFields(@)], 0, "nil", <<>>))))

Close(s) ==
    Bind(IF ~s.cf.unknownState /\ s.cf.plainBlockDirty THEN write(s) ELSE Ret(s, "nil"),
         LAMBDA w :
    IF w.err # "nil" THEN Out(w.s, 0, w.err, <<>>)
    ELSE
    Bind(IF ~s.cf.unknownState /\ w.s.cf.headerDirty THEN writeHeader(w.s)
         ELSE Ret(w.s, "nil"), LAMBDA h :
    IF h.err # "nil" THEN Out(h.s, 0, h.err, <<>>)
    ELSE Out([h.s EXCEPT !.cf = resetFields(@)], 0, "nil", <<>>)))

(***************************************************************************)
(* blockSizeForSize.  waste is wasted / size with wasted an integer, so    *)
(* "bestWaste - waste > 0.01" is 100 * (bestWasted - wasted) > size,       *)
(* written without the product to stay within TLC's integers.              *)
(***************************************************************************)
Wasted(size, candidate) ==
    LET usable == candidate - hmacSize - aesBlockSize
    IN  ((size + usable - 1) \div usable + 1) * candidate - size

\* ScanCandidates taking every candidate that wastes less, without the
\* margin of 0.01 of part_002:253.
RECURSIVE ScanCandidatesAnyGain(_, _, _, _)
ScanCandidatesAnyGain(size, candidate, best, bestWasted) ==
    IF candidate < minBlockSize THEN best
    ELSE Bind(Wasted(size, candidate), LAMBDA wasted :
         Bind(IF bestWasted < 0 \/ bestWasted - wasted > 0
              THEN <<candidate, wasted>> ELSE <<best, bestWasted>>, LAMBDA kept :
              ScanCandidatesAnyGain(size, candidate \div 2, kept[1], kept[2])))

RECURSIVE ScanCandidates(_, _, _, _)
ScanCandidates(size, candidate, best, bestWasted) ==
    IF candidate < minBlockSize THEN best
    ELSE Bind(Wasted(size, candidate), LAMBDA wasted :
         Bind(IF bestWasted < 0 \/ bestWasted - wasted > size \div 100
              THEN <<candidate, wasted>> ELSE <<best, bestWasted>>, LAMBDA kept :
              ScanCandidates(size, candidate \div 2, kept[1], kept[2])))

blockSizeForSize(size) ==
    IF size <= minBlockSize THEN minBlockSize
    ELSE ScanCandidates(size, maxCandidate, maxCandidate, -1)

(***************************************************************************)
(* A caller reading to the end of the stream, as ioutil.ReadAll does in     *)
(* the tests: Read is called with buffers whose sizes cycle through bufs    *)
(* until it returns an error; data collects buf[:n] of every call.          *)
(***************************************************************************)
RECURSIVE ReadAllLoop(_, _, _, _)
ReadAllLoop(s, bufs, k, acc) ==
    Bind(Read(s, bufs[(k % Len(bufs)) + 1]), LAMBDA r :
    Bind(acc \o Slice(r.data, 0, Max(0, Min(r.n, Len(r.data)))), LAMBDA got :
    IF r.err # "nil" THEN Out(r.s, Len(got), r.err, got)
    ELSE ReadAllLoop(r.s, bufs, k + 1, got)))

ReadAll(s, bufs) == ReadAllLoop(s, bufs, 0, <<>>)

(***************************************************************************)
(* The state machine: one handle cf on one path whose file is disk; ret is *)
(* what the last call returned (with poisoned and opened: unknownState and *)
(* file # nil at its entry, and prev: the call before it);                 *)
(* ops counts the calls made.  The history variables ref and flags follow  *)
(* the same calls on a plain in-memory seekable byte array, the stream the *)
(* caller believes it is using; flags.loaded is the number of the block    *)
(* that read() or the fresh-block branch of Write put in cf.plainBlock     *)
(* (-1 while nothing is cached).  env is the state of the envelope         *)
(* specification further down; the file engine never touches it.           *)
(***************************************************************************)
VARIABLES cf, disk, ret, ref, flags, ops, env

vars == <<cf, disk, ret, ref, flags, ops, env>>

MaxOps == 3

Key1 == <<48, 49, 50, 51, 52, 53, 54, 55, 56, 57, 97, 98, 99, 100, 101, 102,
          48, 49, 50, 51, 52, 53, 54, 55, 56, 57, 97, 98, 99, 100, 101, 102>>

Key2 == Tuple([i \in 1..32 |-> 7 * i])

Keys == {Key1, Key2}

Estimates == {0, 161}

\* what rand.Read delivers to the call number k of a run
SeedOf(k) == (11 + 50 * k) % 256

Payload(tag, len) == Tuple([i \in 1..len |-> (100 * tag + i) % 256])

\* lengths below, at and above one plain block of the minimum block size
InitLens == {0, 1, 80, 81}

WriteLens == {0, 1, 81}

ReadLens == {1, 200}

BufPatterns == {<<512>>, <<1, 100>>, <<7>>}

SeekArgs == {<<0, 0>>, <<80, 0>>, <<100, 0>>, <<-1, 0>>,
             <<-1, 1>>, <<0, 2>>, <<-1, 2>>, <<0, 3>>}

\* (offset, bit) of the single-bit changes an outside party makes to the file
TamperPoints == {<<0, 0>>, <<19, 0>>, <<19, 4>>, <<19, 7>>, <<40, 0>>, <<133, 0>>,
                 <<300, 0>>}

\* Lengths a file is cut to: inside Header-A, inside Header-B.
CutPoints == {20, 100}

FlipBit(b, bit) ==
    LET w == Pow2(bit) IN IF (b \div w) % 2 = 1 THEN b - w ELSE b + w

NoFile == [exists |-> FALSE, data |-> <<>>]

\* The file an earlier session leaves: a fresh handle, Write(Payload), Close.
Stored(len, blockSize) ==
    Bind(Write(World(NewCryptFile(Key1, blockSize), NoFile, 0, SeedOf(9)),
               Payload(0, len)), LAMBDA w : Close(w.s).s.disk)

NoRet == [op |-> "none", n |-> 0, err |-> "nil", data |-> <<>>, calls |-> 0,
          a1 |-> 0, a2 |-> 0, poisoned |-> FALSE, opened |-> FALSE, prev |-> "none"]

EnvIdle == [pc |-> "idle", plain |-> <<>>, key |-> <<>>, randOK |-> TRUE,
            encErr |-> "nil", block |-> <<>>, damage |-> "none",
            dkey |-> <<>>, err |-> "nil", out |-> <<>>]

\* phase: "writing" while the stream has only been written by consecutive Write
\* calls to a fresh file, "reading" from the first other call on the existing
\* file on, "empty" when WriteAsEmpty created the file, "mixed" once a Write or
\* WriteAsEmpty follows any of these.
Init ==
    /\ \/ /\ disk = NoFile
          /\ \E e \in Estimates : cf = NewCryptFile(Key1, blockSizeForSize(e))
          /\ ref = [data |-> <<>>, pos |-> 0, n |-> 0, out |-> <<>>]
          /\ flags = [clean |-> TRUE, inRange |-> TRUE, emptied |-> FALSE,
                      phase |-> "writing", key |-> <<>>, loaded |-> -1]
       \/ \E len \in InitLens :
             /\ disk = Stored(len, minBlockSize)
             /\ cf = NewCryptFile(Key1, minBlockSize)
             /\ ref = [data |-> Payload(0, len), pos |-> 0, n |-> 0, out |-> <<>>]
             /\ flags = [clean |-> TRUE, inRange |-> TRUE, emptied |-> FALSE,
                         phase |-> "reading", key |-> Key1, loaded |-> -1]
    /\ ret = NoRet
    /\ ops = 0
    /\ env = EnvIdle

\* The environment of a call: the failing environment call (0: none) and the seed.
Now(f) == [World(cf, disk, f, SeedOf(ops)) EXCEPT !.loaded = flags.loaded]

\* The single failure a run may suffer: any call the undisturbed run r0 makes.
FailsFor(faulty, r0) == IF faulty /\ flags.clean THEN 0..r0.s.calls ELSE {0}

Settle(op, a1, a2, r, f, newRef, inRange, phase, emptied) ==
    /\ cf' = r.s.cf
    /\ disk' = r.s.disk
    /\ ret' = [op |-> op, n |-> r.n, err |-> r.err, data |-> r.data,
               calls |-> r.s.calls, a1 |-> a1, a2 |-> a2,
               poisoned |-> cf.unknownState, opened |-> cf.file, prev |-> ret.op]
    /\ ref' = newRef
    /\ flags' = [flags EXCEPT
                    !.clean = @ /\ f = 0,
                    !.inRange = @ /\ inRange,
                    !.emptied = @ \/ emptied,
                    !.phase = phase,
                    !.key = IF ~disk.exists /\ r.s.disk.exists THEN cf.key ELSE @,
                    !.loaded = IF r.s.cf.plainBlock = <<>> THEN -1 ELSE r.s.loaded]
    /\ ops' = ops + 1
    /\ UNCHANGED env

\* The reference stream: what each call does to a plain byte array.
RefKeep(n) == [ref EXCEPT !.n = n, !.out = <<>>]

RefWrite(b) ==
    LET gap  == IF ref.pos > Len(ref.data) THEN Zeros(ref.pos - Len(ref.data)) ELSE <<>>
        base == ref.data \o gap
        long == IF Len(base) >= ref.pos + Len(b) THEN base
                ELSE base \o Zeros(ref.pos + Len(b) - Len(base))
    IN  [data |-> IF Len(b) = 0 THEN ref.data ELSE CopyInto(long, ref.pos, b),
         pos |-> ref.pos + Len(b), n |-> Len(b), out |-> <<>>]

\* Read(b) with len(b) = bLen: n and out are what the plain stream delivers
\* when it fills b as far as the data goes; a reader may deliver less, and the
\* position moves by got, the count the caller was given.
RefRead(bLen, got) ==
    LET n == Max(0, Min(bLen, Len(ref.data) - ref.pos))
    IN  [ref EXCEPT !.pos = @ + Max(0, got), !.n = n,
                    !.out = Slice(ref.data, ref.pos, ref.pos + n)]

\* Reading until end-of-stream.
RefReadAll ==
    LET n == Max(0, Len(ref.data) - ref.pos)
    IN  [ref EXCEPT !.pos = @ + n, !.n = n, !.out = Slice(ref.data, ref.pos, ref.pos + n)]

RefSeek(offset, whence) ==
    LET o == CASE whence = 0 -> offset
               [] whence = 1 -> ref.pos + offset
               [] whence = 2 -> Len(ref.data) + offset
               [] OTHER -> -1
    IN  IF o < 0 THEN RefKeep(ref.pos) ELSE [ref EXCEPT !.pos = o, !.n = o, !.out = <<>>]

RefReset == [ref EXCEPT !.pos = 0, !.n = 0, !.out = <<>>]

AfterRead == IF flags.phase = "writing" /\ disk.exists THEN "reading" ELSE flags.phase

\* A file stays in its writing phase while every Write appends at the end of
\* what was written before.
AfterWrite ==
    IF flags.phase = "writing" /\ ref.pos = Len(ref.data) THEN "writing" ELSE "mixed"

DoNew(keys, ests) ==
    /\ ops < MaxOps
    /\ ~cf.file
    /\ \E k \in keys, e \in ests :
          /\ cf' = NewCryptFile(k, blockSizeForSize(e))
          /\ flags' = [flags EXCEPT !.clean = @ /\ (~disk.exists \/ k = flags.key),
                                    !.phase = AfterRead,
                                    !.loaded = -1]
    /\ ret' = [NoRet EXCEPT !.op = "New", !.poisoned = cf.unknownState,
                             !.prev = ret.op]
    /\ ref' = RefReset
    /\ ops' = ops + 1
    /\ UNCHANGED <<disk, env>>

DoSize(faulty) ==
    /\ ops < MaxOps
    /\ \E f \in FailsFor(faulty, Size(Now(0))) :
          \E r \in {Size(Now(f))} :
              Settle("Size", 0, 0, r, f, RefKeep(Len(ref.data)), TRUE, flags.phase, FALSE)

DoRead(faulty, lens) ==
    /\ ops < MaxOps
    /\ \E bLen \in lens :
          \E f \in FailsFor(faulty, Read(Now(0), bLen)) :
             \E r \in {Read(Now(f), bLen)} :
                 Settle("Read", bLen, 0, r, f,
                        IF r.err \in {"nil", "EOF"} THEN RefRead(bLen, r.n) ELSE RefKeep(0),
                        TRUE, AfterRead, FALSE)

DoReadAll(faulty, patterns) ==
    /\ ops < MaxOps
    /\ \E bufs \in patterns :
          \E f \in FailsFor(faulty, ReadAll(Now(0), bufs)) :
             \E r \in {ReadAll(Now(f), bufs)} :
                 Settle("ReadAll", 0, 0, r, f,
                        IF r.err \in {"nil", "EOF"}
                        THEN RefReadAll ELSE RefKeep(0),
                        TRUE, AfterRead, FALSE)

DoWrite(faulty, lens) ==
    /\ ops < MaxOps
    /\ \E len \in lens :
          \E b \in {Payload(ops + 1, len)} :
          \E f \in FailsFor(faulty, Write(Now(0), b)) :
             \E r \in {Write(Now(f), b)} :
                 Settle("Write", len, 0, r, f,
                        IF r.err = "nil" THEN RefWrite(b) ELSE RefKeep(0),
                        TRUE, AfterWrite, FALSE)

DoWriteAsEmpty(faulty) ==
    /\ ops < MaxOps
    /\ \E f \in FailsFor(faulty, WriteAsEmpty(Now(0))) :
          \E r \in {WriteAsEmpty(Now(f))} :
              Settle("WriteAsEmpty", 0, 0, r, f,
                     IF r.err = "nil"
                     THEN [data |-> <<>>, pos |-> 0, n |-> 0, out |-> <<>>]
                     ELSE RefKeep(0),
                     TRUE,
                     IF disk.exists THEN "mixed"
                     ELSE IF r.err = "nil" THEN "empty" ELSE flags.phase,
                     TRUE)

DoSeek(faulty, args) ==
    /\ ops < MaxOps
    /\ \E a \in args :
          \E f \in FailsFor(faulty, Seek(Now(0), a[1], a[2])) :
             \E r \in {Seek(Now(f), a[1], a[2])} :
             \E t \in {IF r.err = "nil" THEN RefSeek(a[1], a[2]) ELSE RefKeep(ref.pos)} :
                 Settle("Seek", a[1], a[2], r, f, t, t.pos <= Len(ref.data),
                        AfterRead, FALSE)

DoClose(faulty) ==
    /\ ops < MaxOps
    /\ \E f \in FailsFor(faulty, Close(Now(0))) :
          \E r \in {Close(Now(f))} :
              Settle("Close", 0, 0, r, f,
                     IF r.err = "nil" THEN RefReset ELSE RefKeep(0),
                     TRUE, AfterRead, FALSE)

\* Someone else changes one bit of the file, or cuts it short, while no
\* handle holds it open.
Tamper(points, cuts) ==
    /\ ops < MaxOps
    /\ disk.exists /\ ~cf.file /\ flags.clean
    /\ \/ \E p \in points :
             /\ p[1] < Len(disk.data)
             /\ disk' = [disk EXCEPT !.data[p[1] + 1] = FlipBit(@, p[2])]
       \/ \E n \in cuts :
             /\ n < Len(disk.data)
             /\ disk' = [disk EXCEPT !.data = Slice(@, 0, n)]
    /\ flags' = [flags EXCEPT !.clean = FALSE]
    /\ ret' = [NoRet EXCEPT !.op = "Tamper", !.poisoned = cf.unknownState,
                             !.prev = ret.op]
    /\ ops' = ops + 1
    /\ UNCHANGED <<cf, ref, env>>

(***************************************************************************)
(* Spec: the stream as its caller uses it, with an environment that never  *)
(* fails and a file nobody else touches.                                   *)
(***************************************************************************)
Next ==
    \/ DoNew({Key1}, Estimates)
    \/ DoSize(FALSE)
    \/ DoRead(FALSE, ReadLens)
    \/ DoReadAll(FALSE, BufPatterns)
    \/ DoWrite(FALSE, WriteLens)
    \/ DoWriteAsEmpty(FALSE)
    \/ DoSeek(FALSE, SeekArgs)
    \/ DoClose(FALSE)

Spec == Init /\ [][Next]_vars

(***************************************************************************)
(* SpecFault: the same calls in an environment that may fail once (one     *)
(* OpenFile, ReadAt, WriteAt or rand.Read returns an error), or where      *)
(* someone changes a bit of the closed file, or where the handle is        *)
(* constructed with another key than the file was written under.           *)
(***************************************************************************)
NextFault ==
    \/ DoNew(Keys, {0})
    \/ DoSize(TRUE)
    \/ DoRead(TRUE, {200})
    \/ DoReadAll(TRUE, {<<512>>})
    \/ DoWrite(TRUE, {1, 81})
    \/ DoWriteAsEmpty(TRUE)
    \/ DoSeek(TRUE, {<<0, 0>>, <<100, 0>>})
    \/ DoClose(TRUE)
    \/ Tamper(TamperPoints, CutPoints)

SpecFault == Init /\ [][NextFault]_vars

(***************************************************************************)
(* SpecSession: the calls of Next on a handle that is in the middle of a    *)
(* session.  The initial states are the states one call leaves behind:      *)
(* WriteAsEmpty on a path with no file, or a Read with a 200-byte buffer on *)
(* a stored file.                                                           *)
(***************************************************************************)
SessionLens == {1, 81}

InitSession ==
    /\ \/ \E e \in Estimates :
             \E r \in {WriteAsEmpty(World(NewCryptFile(Key1, blockSizeForSize(e)),
                                         NoFile, 0, SeedOf(0)))} :
                /\ cf = r.s.cf
                /\ disk = r.s.disk
                /\ ret = [NoRet EXCEPT !.op = "WriteAsEmpty", !.calls = r.s.calls]
                /\ ref = [data |-> <<>>, pos |-> 0, n |-> 0, out |-> <<>>]
                /\ flags = [clean |-> TRUE, inRange |-> TRUE, emptied |-> TRUE,
                            phase |-> "empty", key |-> Key1, loaded |-> r.s.loaded]
       \/ \E len \in SessionLens :
             \E r \in {Read(World(NewCryptFile(Key1, minBlockSize),
                                  Stored(len, minBlockSize), 0, SeedOf(0)), 200)} :
                /\ cf = r.s.cf
                /\ disk = r.s.disk
                /\ ret = [NoRet EXCEPT !.op = "Read", !.n = r.n, !.err = r.err,
                                       !.data = r.data, !.calls = r.s.calls,
                                       !.a1 = 200]
                /\ ref = [data |-> Payload(0, len), pos |-> Max(0, r.n),
                          n |-> Min(200, len), out |-> Slice(Payload(0, len), 0, Min(200, len))]
                /\ flags = [clean |-> TRUE, inRange |-> TRUE, emptied |-> FALSE,
                            phase |-> "reading", key |-> Key1,
                            loaded |-> IF r.s.cf.plainBlock = <<>> THEN -1
                                       ELSE r.s.loaded]
    /\ ops = 0
    /\ env = EnvIdle

SpecSession == InitSession /\ [][Next]_vars

(***************************************************************************)
(* SpecEnvelope: the block envelope on its own, as TestCrypt0 drives it.   *)
(* One plaintext is encoded under a key (rand.Read may fail), the block    *)
(* may then have one bit changed or its tail cut off, and is decoded       *)
(* under the same or another key.  env.pc is the position of that run.     *)
(***************************************************************************)
\* plaintext lengths: empty, one and two cipher blocks, and one misaligned
PlainLens == {0, 16, 32, 24}

CutLens == {1, 16}

InitEnvelope ==
    /\ cf = NewCryptFile(Key1, minBlockSize)
    /\ disk = NoFile
    /\ ret = NoRet
    /\ ref = [data |-> <<>>, pos |-> 0, n |-> 0, out |-> <<>>]
    /\ flags = [clean |-> TRUE, inRange |-> TRUE, emptied |-> FALSE,
                phase |-> "writing", key |-> <<>>, loaded |-> -1]
    /\ ops = 0
    /\ env = EnvIdle

Encode ==
    /\ env.pc = "idle"
    /\ \E len \in PlainLens, key \in Keys, randOK \in BOOLEAN, k \in {1, 2} :
          \E e \in {encrypt0(Payload(k, len), key, randOK, SeedOf(k))} :
              env' = [EnvIdle EXCEPT !.pc = IF e.err = "nil" THEN "encoded" ELSE "failed",
                                     !.plain = Payload(k, len), !.key = key,
                                     !.randOK = randOK, !.encErr = e.err,
                                     !.block = e.out]
    /\ UNCHANGED <<cf, disk, ret, ref, flags, ops>>

TamperBlock ==
    /\ env.pc = "encoded" /\ env.damage = "none"
    /\ \E i \in 1..Len(env.block), bit \in 0..7 :
          env' = [env EXCEPT !.block[i] = FlipBit(@, bit), !.damage = "bit"]
    /\ UNCHANGED <<cf, disk, ret, ref, flags, ops>>

Truncate ==
    /\ env.pc = "encoded" /\ env.damage = "none"
    /\ \E n \in CutLens :
          env' = [env EXCEPT !.block = Slice(@, 0, Len(@) - n), !.damage = "cut"]
    /\ UNCHANGED <<cf, disk, ret, ref, flags, ops>>

Decode ==
    /\ env.pc = "encoded"
    /\ \E key \in Keys :
          \E d \in {decrypt0(env.block, key)} :
              env' = [env EXCEPT !.pc = "decoded", !.dkey = key,
                                 !.err = d.err, !.out = d.out]
    /\ UNCHANGED <<cf, disk, ret, ref, flags, ops>>

NextEnvelope == Encode \/ TamperBlock \/ Truncate \/ Decode

SpecEnvelope == InitEnvelope /\ [][NextEnvelope]_vars

(***************************************************************************)
(* blockSizeForSize on its own, as TestBlockSizeForSize calls it: a size is *)
(* drawn, the function is applied, env records the argument and the result. *)
(* The sizes are every size up to MaxSize and the sizes of the test table.  *)
(***************************************************************************)
MaxSize == 300

TestSizes == {2456, 24567, 245678, 2456789, 24567890, 245678901, 3332545,
              3339041, 3339889, 3370161, 3397889, 3404193}

Sizes == 0..MaxSize \cup TestSizes

InitBlockSize ==
    /\ cf = NewCryptFile(Key1, minBlockSize)
    /\ disk = NoFile
    /\ ret = NoRet
    /\ ref = [data |-> <<>>, pos |-> 0, n |-> 0, out |-> <<>>]
    /\ flags = [clean |-> TRUE, inRange |-> TRUE, emptied |-> FALSE,
                phase |-> "writing", key |-> <<>>, loaded |-> -1]
    /\ ops = 0
    /\ \E size \in Sizes : env = [pc |-> "size", size |-> size, blockSize |-> 0]

CallBlockSizeForSize ==
    /\ env.pc = "size"
    /\ env' = [env EXCEPT !.pc = "sized", !.blockSize = blockSizeForSize(env.size)]
    /\ UNCHANGED <<cf, disk, ret, ref, flags, ops>>

NextBlockSize == CallBlockSizeForSize

SpecBlockSize == InitBlockSize /\ [][NextBlockSize]_vars


(***************************************************************************)
(* The properties.  Those over the stream are stated for a file whose      *)
(* content was laid down by consecutive Write calls to a fresh container   *)
(* (flags.phase is not "mixed"), by a handle holding the key the file was  *)
(* written under, in an environment that has not failed (flags.clean).     *)
(***************************************************************************)
Established == flags.clean /\ flags.phase # "mixed" /\ ~flags.emptied

\* C1 -- Stream round-trip: once P has been written to a fresh container with
\* Write and Close has returned, a handle that is newly constructed (or reset
\* by Close) with the same key reads exactly P until end-of-stream, and Size
\* returns len(P).
C1_StreamRoundTrip ==
    (Established /\ disk.exists /\ ~ret.opened /\ ~ret.poisoned) =>
        /\ ret.op = "ReadAll" => ret.err = "EOF" /\ ret.data = ref.data
        /\ ret.op = "Size" => ret.err = "nil" /\ ret.n = Len(ref.data)

\* Write of 81 bytes (more than one plain block), Close, then the read to the end.
C1_Witness ==
    /\ Established /\ ~ret.opened
    /\ ret.op = "ReadAll" /\ ret.prev = "Close" /\ ret.err = "EOF"
    /\ ret.data = Payload(1, 81)

\* The position a plain stream reaches by the seek (offset, whence).
SeekTarget(offset, whence) ==
    CASE whence = 0 -> offset
      [] whence = 1 -> ref.pos + offset
      [] whence = 2 -> Len(ref.data) + offset
      [] OTHER -> -1

C2_Step ==
    (Established /\ disk.exists /\ ~cf.unknownState) =>
        /\ ret'.op = "Seek" =>
              LET o == SeekTarget(ret'.a1, ret'.a2)
              IN  (0 <= o /\ o <= Len(ref.data)) => ret'.err = "nil" /\ ret'.n = o
        /\ (/\ ret.op = "Seek" /\ ret.err = "nil"
            /\ ret.n <= Len(ref.data) /\ ret'.op = "ReadAll") =>
              /\ ret'.err = "EOF"
              /\ ret'.data = Slice(ref.data, ret.n, Len(ref.data))

\* C2 -- Seek correctness: on a container holding N bytes D, a Seek with
\* whence 0, 1 or 2 whose target o satisfies 0 <= o <= N returns o without
\* error, and reading from there to end-of-stream, with whatever buffer sizes,
\* returns exactly D[o:].
C2_SeekCorrectness == [][C2_Step]_vars

\* The last byte of an 81-byte container, read after a Seek to offset 80.
C2_Witness ==
    /\ Established /\ Len(ref.data) = 81
    /\ ret.op = "ReadAll" /\ ret.prev = "Seek" /\ ret.err = "EOF"
    /\ ret.data = Slice(ref.data, 80, 81)

\* C3 -- The container behaves like a plain seekable stream: with positions kept
\* within 0..logical_size and no faults, every Read delivers bytes the plain
\* byte array would deliver at the same position (a reader may deliver fewer
\* than asked, but at least one while data remains) and Size returns the
\* array's length.
C3_PlainStreamRefinement ==
    (/\ flags.clean /\ flags.inRange /\ ~flags.emptied
     /\ ~ret.poisoned /\ ret.err \in {"nil", "EOF"}) =>
        /\ ret.op = "Read" =>
              /\ 0 <= ret.n /\ ret.n <= ref.n
              /\ (ret.n = 0) = (ref.n = 0)
              /\ Slice(ret.data, 0, ret.n) = Slice(ref.out, 0, ret.n)
        /\ ret.op = "Size" => ret.n = Len(ref.data)

\* C4 -- Writes never shrink logical_size: across every successful Write on an
\* open handle, from whatever position, the size does not decrease.
C4_WritesNeverShrink ==
    [][(cf.file /\ ret'.op = "Write" /\ ret'.err = "nil") => cf'.size >= cf.size]_vars

C5_Step ==
    (cf.unknownState /\ ret'.op \in {"Read", "ReadAll", "Write", "Seek", "Size"}) =>
        /\ ret'.err = "unusable" /\ ret'.n = 0 /\ ret'.data = <<>>
        /\ ret'.calls = 0
        /\ cf' = cf /\ disk' = disk

\* C5 -- Poison absorption for the stream operations: on a poisoned handle
\* every Read, Write, Seek and Size returns the unusable-handle error, makes no
\* call to the file and leaves every field of the handle (and the file) as it was.
C5_PoisonAbsorption == [][C5_Step]_vars

\* A Write turned away by a handle an earlier failure poisoned.
C5_Witness ==
    /\ ret.poisoned /\ cf.unknownState /\ ~cf.file
    /\ ret.op = "Write" /\ ret.err = "unusable" /\ ret.calls = 0

\* C6 as stated -- Close on a poisoned handle fails with the unusable-handle
\* error and performs no I/O.
C6_ClosePoisonedFails ==
    [][(cf.unknownState /\ ret'.op = "Close") =>
          ret'.err = "unusable" /\ ret'.calls = 0]_vars

\* C6 as the code has it -- Close on a poisoned handle returns no error: it skips
\* both flushes, makes no call to the file, and resets every field, the
\* poisoned flag included, so the handle is as freshly constructed.
C6_ClosePoisonedResets ==
    [][(cf.unknownState /\ ret'.op = "Close") =>
          /\ ret'.err = "nil" /\ ret'.calls = 0
          /\ disk' = disk
          /\ cf' = NewCryptFile(cf.key, cf.fallbackBlockSize)]_vars

\* A poisoned handle after Close: usable again.
C6_Witness ==
    /\ ret.op = "Close" /\ ret.poisoned /\ ret.err = "nil"
    /\ ~cf.unknownState /\ ~cf.file

C7_Step ==
    (~disk.exists /\ ~cf.unknownState) =>
        /\ ret'.op \in {"Size", "Read", "ReadAll", "Seek"} =>
              ret'.err = "notexist" /\ ~disk'.exists /\ cf' = cf
        /\ disk'.exists =>
              /\ ret'.op \in {"Write", "WriteAsEmpty"} /\ ret'.err = "nil"
              /\ cf'.file /\ cf'.headerDirty
              /\ cf'.size = (IF ret'.op = "Write" THEN ret'.a1 ELSE 0)

\* C7 -- On a path where no file exists, Size, Read and Seek return the
\* does-not-exist error, create no file and leave the handle as it was
\* (unopened, unpoisoned); the file appears only through Write, which leaves
\* the header dirty and the size at the bytes written from size 0.
C7_NotExist == [][C7_Step]_vars

\* Size found no file, then Write created it.
C7_Witness ==
    /\ disk.exists /\ flags.phase = "writing"
    /\ ret.op = "Write" /\ ret.prev = "Size" /\ ~ret.opened /\ ret.err = "nil"

\* the block size recorded in Header-A of the file
DiskBlockSize == Uint(Slice(disk.data, 16, 20))

\* C8 -- Opaque emptiness: after WriteAsEmpty created the container, Size
\* returns 0 before and after Close and reopen, reading yields zero bytes, and
\* the closed file is 2 x block_size long, as long as a container of 1 byte.
C8_OpaqueEmptiness ==
    (flags.clean /\ flags.phase = "empty") =>
        /\ ret.op = "Size" => ret.err = "nil" /\ ret.n = 0
        /\ ret.op = "ReadAll" => ret.err = "EOF" /\ ret.data = <<>>
        /\ ~cf.file =>
              /\ Len(disk.data) = 2 * DiskBlockSize
              /\ Len(disk.data) = Len(Stored(1, DiskBlockSize).data)

\* WriteAsEmpty, Close, and the reopened container read to its end.
C8_Witness ==
    /\ flags.clean /\ flags.phase = "empty"
    /\ ret.op = "ReadAll" /\ ret.prev = "Close" /\ ~ret.opened
    /\ ret.err = "EOF" /\ ret.data = <<>>
    /\ Len(disk.data) = 2 * DiskBlockSize

\* C9 -- Envelope round-trip: for a plaintext P of a length that is a multiple
\* of 16 and a key K, encrypt0 (given its IV by rand.Read) succeeds with a block
\* of 32 + 16 + len(P) bytes, and decrypt0 of that block under K succeeds and
\* returns P.
C9_EnvelopeRoundTrip ==
    /\ (env.pc # "idle" /\ Len(env.plain) % aesBlockSize = 0 /\ env.randOK) =>
          /\ env.encErr = "nil"
          /\ env.damage = "none" =>
                Len(env.block) = hmacSize + aesBlockSize + Len(env.plain)
    /\ (env.pc = "decoded" /\ env.damage = "none" /\ env.dkey = env.key) =>
          env.err = "nil" /\ env.out = env.plain

\* Two cipher blocks encoded and decoded under the same key.
C9_Witness ==
    /\ env.pc = "decoded" /\ env.damage = "none" /\ env.dkey = env.key
    /\ Len(env.plain) = 2 * aesBlockSize /\ env.err = "nil" /\ env.out = env.plain

\* C10 -- Fail-closed authentication: decrypt0 returns plaintext only if the
\* MAC in block[:32] verifies over block[32:] under the given key; a block
\* encoded under another key, or with one bit changed, gives KeyError and no
\* plaintext.
C10_FailClosed ==
    env.pc = "decoded" =>
        /\ env.err = "nil" =>
              validateHMAC(Slice(env.block, hmacSize, Len(env.block)),
                           Slice(env.block, 0, hmacSize), env.dkey)
        /\ (env.damage # "cut" /\ (env.damage = "bit" \/ env.dkey # env.key)) =>
              env.err = "KeyError" /\ env.out = <<>>

\* A block with one bit changed, decoded under the key it was encoded with.
C10_Witness ==
    /\ env.pc = "decoded" /\ env.damage = "bit" /\ env.dkey = env.key
    /\ env.err = "KeyError" /\ env.out = <<>>

\* C11 -- Alignment enforcement: encrypt0 and decrypt0 return the alignment
\* error and no output for every input whose length is not a multiple of 16,
\* whatever the key and whether or not rand.Read would have succeeded.
C11_AlignmentEnforced ==
    /\ (env.pc # "idle" /\ Len(env.plain) % aesBlockSize # 0) =>
          env.encErr = "misaligned" /\ env.block = <<>>
    /\ (env.pc = "decoded" /\ Len(env.block) % aesBlockSize # 0) =>
          env.err = "misaligned" /\ env.out = <<>>

\* A 24-byte plaintext was refused by encrypt0, or a block cut by one byte
\* was refused by decrypt0.
C11_Witness ==
    \/ /\ env.pc = "failed" /\ Len(env.plain) = 24 /\ env.randOK
       /\ env.encErr = "misaligned"
    \/ /\ env.pc = "decoded" /\ env.damage = "cut"
       /\ Len(env.block) % aesBlockSize = aesBlockSize - 1
       /\ env.err = "misaligned"

\* C12 -- blockSizeForSize(s) is 128 for every s <= 128; for s > 128 it is
\* the candidate kept by scanning 65536, 32768, ..., 128 in descending order,
\* where waste(c) = ((ceil(s / (c - 48)) + 1) * c - s) / s and a smaller
\* candidate replaces the best so far only if it lowers the waste by more
\* than 0.01; in particular 0 -> 128, 128 -> 128, 160 -> 128, 161 -> 256,
\* 209 -> 128, 2456 -> 256, 24567 -> 1024, 24567890 -> 65536.
\* WasteTimesSize(s, c) is waste(c) * s, an integer, so "lowers the waste by
\* more than 0.01" reads WasteTimesSize(s, best) - WasteTimesSize(s, c) > s / 100,
\* which for an integer on the left is the same as exceeding s \div 100.
CeilDiv(a, b) == -((-a) \div b)

WasteTimesSize(s, c) == (CeilDiv(s, c - 48) + 1) * c - s

Descending == <<65536, 32768, 16384, 8192, 4096, 2048, 1024, 512, 256, 128>>

RECURSIVE KeptFrom(_, _, _)
KeptFrom(s, i, best) ==
    IF i > Len(Descending) THEN best
    ELSE Bind(IF WasteTimesSize(s, best) - WasteTimesSize(s, Descending[i]) > s \div 100
              THEN Descending[i] ELSE best, LAMBDA kept : KeptFrom(s, i + 1, kept))

Examples == {<<0, 128>>, <<128, 128>>, <<160, 128>>, <<161, 256>>, <<209, 128>>,
             <<2456, 256>>, <<24567, 1024>>, <<24567890, 65536>>}

C12_BlockSizeForSize ==
    env.pc = "sized" =>
        /\ env.size <= 128 => env.blockSize = 128
        /\ env.size > 128 => env.blockSize = KeptFrom(env.size, 2, Descending[1])
        /\ \A e \in Examples : env.size = e[1] => env.blockSize = e[2]

\* A size for which the scan passes over larger candidates and stops short of
\* the smallest one.
C12_Witness ==
    env.pc = "sized" /\ env.size = 24567 /\ env.blockSize = 1024

\* C13 -- Idempotent close: Close on a handle that holds no file (closed
\* before, or never opened) and is not poisoned returns no error, makes no
\* call to the file, leaves the file as it was, and leaves the handle in the
\* reset state it was in.
C13_Step ==
    (~cf.file /\ ~cf.unknownState /\ ret'.op = "Close") =>
        /\ ret'.err = "nil" /\ ret'.calls = 0
        /\ disk' = disk
        /\ cf' = cf
        /\ cf' = NewCryptFile(cf.key, cf.fallbackBlockSize)

C13_IdempotentClose == [][C13_Step]_vars

\* Two calls of Close in a row on a handle that holds no file, the file
\* being on disk.
C13_Witness ==
    /\ ret.op = "Close" /\ ret.prev = "Close" /\ ~ret.opened /\ ~ret.poisoned
    /\ ret.err = "nil" /\ ret.calls = 0
    /\ disk.exists /\ ~cf.file

\* C14 -- Close always ends in the freshly constructed state: when Close
\* returns, whether it succeeded or a flush step (cached block or header)
\* failed, no file is held and blockSize, size, the cached block, both dirty
\* flags, index, plainBlockIndex and unknownState are at their values before
\* open.
C14_CloseAlwaysResets ==
    [][ret'.op = "Close" => cf' = NewCryptFile(cf.key, cf.fallbackBlockSize)]_vars

\* C15 -- The block size of a file is fixed at creation: the handle that
\* creates the file takes its fallbackBlockSize (128 if that is 0); from then
\* on, across Size, Read, Write, WriteAsEmpty, Seek and Close on any handle
\* for the path, whatever its estimated size, the block-size field of the
\* header on disk never changes and the blockSize of a handle holding the
\* file equals it.
HeaderOnDisk ==
    disk.exists /\ Len(disk.data) >= header0ASize /\ Slice(disk.data, 0, 11) = Magic

C15_Step ==
    /\ (~disk.exists /\ disk'.exists) =>
          cf'.blockSize = (IF cf.fallbackBlockSize = 0 THEN minBlockSize
                           ELSE cf.fallbackBlockSize)
    /\ (cf.file /\ cf'.file) => cf'.blockSize = cf.blockSize
    /\ (~HeaderOnDisk /\ HeaderOnDisk') => cf.file /\ DiskBlockSize' = cf.blockSize
    /\ HeaderOnDisk => HeaderOnDisk' /\ DiskBlockSize' = DiskBlockSize
    /\ (cf'.file /\ HeaderOnDisk') => cf'.blockSize = DiskBlockSize'

C15_BlockSizeFixed == [][C15_Step]_vars

\* A handle constructed for block size 256 has written to a file created with
\* block size 128 and closed it.
C15_Witness ==
    /\ ret.op = "Close" /\ ret.prev = "Write" /\ ret.err = "nil" /\ ret.calls > 0
    /\ cf.fallbackBlockSize = 256 /\ HeaderOnDisk /\ DiskBlockSize = minBlockSize

\* C16 -- A failed open of an existing file (bad magic, block size below 128
\* or not a multiple of 16, a header cut short, or Header-B failing
\* authentication under the handle's key) makes the call return that error,
\* does not poison the handle, does not modify the file, leaves no file held
\* and leaves every field of the handle as it was.
OpenErrors == {"badmagic", "badblocksize", "EOF", "KeyError"}

OpenWouldFail == open(World(cf, disk, 0, 0)).err

C16_Step ==
    (/\ disk.exists /\ ~cf.file /\ ~cf.unknownState
     /\ OpenWouldFail \in OpenErrors
     /\ ret'.op \in {"Size", "Read", "ReadAll", "Write", "WriteAsEmpty", "Seek"}
     /\ ret'.err # "ioerr") =>
        /\ ret'.err = OpenWouldFail
        /\ ~cf'.unknownState /\ ~cf'.file
        /\ cf' = cf
        /\ disk' = disk

C16_FailedOpen == [][C16_Step]_vars

\* A Write turned away because the block-size field of the header was
\* changed to 0, the handle and the file left as they were.
C16_Witness ==
    /\ ret.op = "Write" /\ ret.prev = "Tamper" /\ ret.err = "badblocksize"
    /\ ~ret.opened /\ ~cf.file /\ ~cf.unknownState
    /\ HeaderOnDisk /\ DiskBlockSize = 0

\* A file left by a successful Close (or stored before the run) whose
\* stream is ref.data, with no handle holding it.
AtRest == Established /\ HeaderOnDisk /\ ~cf.file /\ ~cf.unknownState

\* The number of data blocks a stream of n bytes takes.
BlocksFor(n, plainBlockSize) == (n + plainBlockSize - 1) \div plainBlockSize

\* Data block i, at offset blockSize * (i + 1), decodes to bytes
\* i * plainBlockSize onwards of the stream.
DataBlockAt(i, blockSize, plainBlockSize) ==
    /\ Len(disk.data) >= blockSize * (i + 2)
    /\ \E d \in {decrypt0(Slice(disk.data, blockSize * (i + 1), blockSize * (i + 2)),
                           flags.key)} :
          /\ d.err = "nil" /\ Len(d.out) = plainBlockSize
          /\ \E m \in {Min(plainBlockSize, Len(ref.data) - i * plainBlockSize)} :
                Slice(d.out, 0, m)
                   = Slice(ref.data, i * plainBlockSize, i * plainBlockSize + m)

\* C17 as stated -- On-disk layout: Header-A is 32 bytes at offset 0; Header-B
\* occupies exactly one block (blockSize bytes) immediately following
\* Header-A, its decoded payload being the 8-byte big-endian logical size
\* followed by plainBlockSize - 8 bytes of padding; data block i begins at
\* offset blockSize * (i + 1).
C17_LayoutWholeBlockHeaderB ==
    AtRest =>
        \E blockSize \in {DiskBlockSize} :
        \E plainBlockSize \in {blockSize - hmacSize - aesBlockSize} :
            /\ Len(disk.data) >= header0ASize + blockSize
            /\ \E h \in {decrypt0(Slice(disk.data, header0ASize,
                                         header0ASize + blockSize), flags.key)} :
                  /\ h.err = "nil" /\ Len(h.out) = plainBlockSize
                  /\ Uint(Slice(h.out, 0, 8)) = Len(ref.data)
            /\ \A i \in 0..(BlocksFor(Len(ref.data), plainBlockSize) - 1) :
                  DataBlockAt(i, blockSize, plainBlockSize)

\* C17 as the code has it -- Header-A is 32 bytes at offset 0; Header-B is the
\* blockSize - 32 bytes immediately following it, so that the two headers fill
\* exactly the first block; its decoded payload is the 8-byte big-endian
\* logical size followed by plainBlockSize - 32 - 8 bytes of padding; data
\* block i begins at offset blockSize * (i + 1), and the file ends with the
\* last data block.
C17_LayoutHeadersShareBlock ==
    AtRest =>
        \E blockSize \in {DiskBlockSize} :
        \E plainBlockSize \in {blockSize - hmacSize - aesBlockSize} :
            /\ Len(disk.data) >= blockSize
            /\ \E h \in {decrypt0(Slice(disk.data, header0ASize, blockSize), flags.key)} :
                  /\ h.err = "nil" /\ Len(h.out) = plainBlockSize - header0ASize
                  /\ Slice(h.out, 0, 8) = PutUint(8, Len(ref.data))
            /\ \A i \in 0..(BlocksFor(Len(ref.data), plainBlockSize) - 1) :
                  DataBlockAt(i, blockSize, plainBlockSize)
            /\ Len(disk.data)
                  = blockSize * (BlocksFor(Len(ref.data), plainBlockSize) + 1)

\* A stream of 81 bytes written by this run and closed: the headers in the
\* first block, two data blocks behind it.
C17_Witness ==
    /\ AtRest /\ ret.op = "Close" /\ ret.prev = "Write" /\ ret.err = "nil"
    /\ Len(ref.data) = 81 /\ Len(disk.data) = 3 * DiskBlockSize

\* C18 -- Cache identity: after any sequence of Read, Write, Seek and
\* WriteAsEmpty calls, reads and seeks beyond the logical size included,
\* whenever a plain block is cached it is the block number
\* index / plainBlockSize, the block a flush writes to.
C18_CacheIdentity ==
    (cf.file /\ cf.plainBlock # <<>>) =>
        flags.loaded = cf.index \div cf.plainBlockSize

\* C19 -- Cursor consistency: between calls on a handle that holds the file,
\* plainBlockIndex equals index mod plainBlockSize, also after a Read whose
\* count was clamped at the logical size and after WriteAsEmpty put index
\* back to 0.
C19_CursorConsistency ==
    (cf.file /\ ~cf.unknownState /\ cf.plainBlockSize > 0) =>
        cf.plainBlockIndex = cf.index % cf.plainBlockSize

\* C20 -- Read returns a count n with 0 <= n <= len(b) in every case; when
\* index >= size at the call, also after a Seek beyond the logical end into a
\* block that exists in the file, it returns 0 together with end-of-stream.
C20_Step ==
    ret'.op = "Read" =>
        /\ 0 <= ret'.n /\ ret'.n <= ret'.a1
        /\ (cf.file /\ ~cf.unknownState /\ cf.index >= cf.size) =>
              ret'.n = 0 /\ ret'.err = "EOF"

C20_ReadCountBounds == [][C20_Step]_vars

\* C21 -- Read never exposes bytes at or beyond the logical size: every Read
\* that returns n > 0 from position p has p + n <= size, returns the bytes
\* [p, p + n) of the stream, and leaves index = p + n <= size, whatever the
\* block holds past the logical size.
C21_Step ==
    (ret'.op = "Read" /\ ret'.n > 0 /\ ret'.err \in {"nil", "EOF"}) =>
        \E p \in {IF cf.file THEN cf.index ELSE 0} :
            /\ p + ret'.n <= cf'.size
            /\ cf'.index = p + ret'.n
            /\ p + ret'.n <= Len(ref.data)
            /\ Slice(ret'.data, 0, ret'.n) = Slice(ref.data, p, p + ret'.n)

C21_ReadWithinSize == [][C21_Step]_vars

\* C22 -- In every reachable state a poisoned handle holds no file: whenever
\* unknownState is true, file is nil.
C22_PoisonedHoldsNoFile == cf.unknownState => ~cf.file

\* A handle that held the file when Write was called and was poisoned by
\* the failure of an environment call during it.
C22_Witness ==
    /\ ret.op = "Write" /\ ret.opened /\ ~ret.poisoned /\ ret.err \in {"ioerr", "randerr"}
    /\ cf.unknownState /\ ~cf.file

\* C23 -- A Seek whose computed position is negative, or whose whence is
\* not 0, 1 or 2, returns an error together with the unchanged current
\* position, and leaves the position, the cached block, its dirty flag and
\* the file on disk unchanged.  The position asked for is computed here from
\* the position before the call (0 on a handle that opens the file for this
\* call) and the logical size.
C23_Step ==
    (ret'.op = "Seek" /\ disk.exists /\ ~cf.unknownState) =>
        \E pos \in {IF cf.file THEN cf.index ELSE 0} :
        \E to \in {CASE ret'.a2 = 0 -> ret'.a1
                     [] ret'.a2 = 1 -> pos + ret'.a1
                     [] ret'.a2 = 2 -> cf'.size + ret'.a1
                     [] OTHER -> -1} :
            (ret'.a2 \notin {0, 1, 2} \/ to < 0) =>
                /\ ret'.err \in {"whence", "negative"}
                /\ ret'.n = pos
                /\ cf'.index = pos
                /\ cf'.plainBlockIndex = cf.plainBlockIndex
                /\ cf'.plainBlock = cf.plainBlock
                /\ cf'.plainBlockDirty = cf.plainBlockDirty
                /\ disk' = disk

C23_InvalidSeek == [][C23_Step]_vars

\* A Seek to a negative position refused at position 81, with a dirty
\* block in the cache.
C23_Witness ==
    /\ ret.op = "Seek" /\ ret.prev = "Write" /\ ret.err = "negative"
    /\ ret.n = 81 /\ cf.index = 81 /\ cf.plainBlockDirty /\ cf.plainBlock # <<>>

\* C24 -- Dirty data is never dropped: in Read, Write, Seek and Close a
\* cached block that is dirty is written to disk at its own block number
\* before the cache is evicted, replaced or reset; a Seek to another block
\* flushes and evicts without loading the target block, and a Seek within
\* the same block keeps the cache.
\* FlushedTo(i, content): after the call, block i of the file decodes to content.
FlushedTo(i, content) ==
    /\ Len(disk'.data) >= cf.blockSize * (i + 2)
    /\ \E d \in {decrypt0(Slice(disk'.data, cf.blockSize * (i + 1),
                                 cf.blockSize * (i + 2)), cf.key)} :
          d.err = "nil" /\ d.out = content

C24_Step ==
    (/\ cf.file /\ ~cf.unknownState /\ cf.plainBlock # <<>>
     /\ ret'.err \in {"nil", "EOF"}) =>
        /\ (/\ cf.plainBlockDirty
            /\ ret'.op \in {"Read", "ReadAll", "Seek", "Close"}
            /\ (cf'.plainBlock # cf.plainBlock \/ ~cf'.plainBlockDirty)) =>
              FlushedTo(flags.loaded, cf.plainBlock)
        /\ (/\ ret'.op = "Write" /\ ret'.a1 > 0
            /\ cf.plainBlockIndex + ret'.a1 >= cf.plainBlockSize) =>
              FlushedTo(flags.loaded,
                        CopyInto(cf.plainBlock, cf.plainBlockIndex,
                                 Payload(ops + 1, ret'.a1)))
        /\ (ret'.op = "Seek" /\ ret'.err = "nil") =>
              IF ret'.n \div cf.plainBlockSize = cf.index \div cf.plainBlockSize
              THEN /\ cf'.plainBlock = cf.plainBlock
                   /\ cf'.plainBlockDirty = cf.plainBlockDirty
                   /\ disk' = disk
              ELSE cf'.plainBlock = <<>>

C24_DirtyNeverDropped == [][C24_Step]_vars

\* C25 -- Whenever the handle holds the file, after open or create,
\* blockSize >= 128, blockSize is a multiple of 16 and
\* plainBlockSize = blockSize - 32 - 16 > 0, for files created with any
\* estimated size and for any header open accepts.
C25_BlockSizeInvariants ==
    cf.file =>
        /\ cf.blockSize >= 128
        /\ cf.blockSize % 16 = 0
        /\ cf.plainBlockSize = cf.blockSize - 32 - 16
        /\ cf.plainBlockSize > 0

\* The file was created with block size 256 and closed; this Read opened it.
C25_Witness ==
    /\ ret.op = "Read" /\ ret.prev = "Close" /\ ~ret.opened /\ ret.err = "nil"
    /\ cf.file /\ cf.blockSize = 256 /\ cf.plainBlockSize = 208

\* C26 -- Header coherence: on a handle that holds the file and is not
\* poisoned, whenever headerDirty is false the logical size stored in
\* Header-B on disk equals cf.size; every call that changes cf.size sets
\* headerDirty; and a successful Close leaves the size the handle had in
\* Header-B.
\* StoredSize(data, blockSize, key): the size Header-B holds, -1 if it does
\* not decode.
StoredSize(data, blockSize, key) ==
    IF Len(data) < blockSize \/ blockSize <= header0ASize THEN -1
    ELSE Bind(decrypt0(Slice(data, header0ASize, blockSize), key), LAMBDA h :
              IF h.err # "nil" \/ Len(h.out) < 8 THEN -1
              ELSE Uint(Slice(h.out, 0, 8)))

C26_Step ==
    /\ (cf'.file /\ ~cf'.unknownState /\ ~cf'.headerDirty) =>
          StoredSize(disk'.data, cf'.blockSize, cf'.key) = cf'.size
    /\ (cf.file /\ cf'.file /\ cf'.size # cf.size) => cf'.headerDirty
    /\ (~disk.exists /\ disk'.exists /\ cf'.file) => cf'.headerDirty
    /\ (ret'.op = "Close" /\ ret'.err = "nil" /\ cf.file /\ ~cf.unknownState) =>
          StoredSize(disk'.data, cf.blockSize, cf.key) = cf.size

C26_HeaderCoherence == [][C26_Step]_vars

\* A Close that stored the size 81 from a handle whose position was back at 0.
C26_Witness ==
    /\ ret.op = "Close" /\ ret.prev = "Seek" /\ ret.opened /\ ret.err = "nil"
    /\ ret.calls > 0 /\ ~cf.file
    /\ HeaderOnDisk /\ StoredSize(disk.data, DiskBlockSize, flags.key) = 81


\* C27 -- A Read or Write that fails because a data block does not
\* authenticate under the handle's key (the file was opened, or opens,
\* without error) returns that error, leaves the handle unpoisoned and
\* leaves the file as it was before the call; this includes a Write of more
\* than one block that fails while loading a later block.
DataBlockCall ==
    /\ ~cf.unknownState
    /\ disk.exists
    /\ cf.file \/ OpenWouldFail = "nil"

C27_Step ==
    (/\ DataBlockCall
     /\ ret'.op \in {"Read", "Write"}
     /\ ret'.err = "KeyError") =>
        /\ ~cf'.unknownState
        /\ disk' = disk

C27_MacFailureFrame == [][C27_Step]_vars

=============================================================================
